---- MODULE Spec2Model ----
(***************************************************************************)
(* A model of merge_ltlf.py: LTLFPair.relabel_variables and                *)
(* LTLFMerger.merge_pairs.  Text (formulas, symbol names, directory names) *)
(* is a sequence of one-character strings, so that str(), int(), sorted()  *)
(* and the regular-expression substitution are computed on characters, as  *)
(* Python computes them.  A dict is the sequence of its <<key, value>>     *)
(* items in insertion order.                                               *)
(***************************************************************************)
EXTENDS Integers, Sequences, FiniteSets, TLC

VARIABLES pairs,          \* the list of LTLFPair objects handed to the merger
          output_dir,     \* the output_dir argument of merge_pairs
          input_mapping,  \* dict old input name -> new name
          output_mapping, \* dict old output name -> new name
          used_inputs,    \* merge_pairs: the set used_inputs
          formulas,       \* merge_pairs: the local `formula` of each loop iteration
          result,         \* what merge_pairs returned (or the exception it raised)
          files,          \* what write_files wrote for the merged pair
          pc              \* "loaded", "merged" or "relabelled"

vars == <<pairs, output_dir, input_mapping, output_mapping, used_inputs,
          formulas, result, files, pc>>

(***************************************************************************)
(* Bounds of the model.                                                    *)
(***************************************************************************)
MaxPairs == 2      \* records in one merge
MaxIn == 2         \* declared inputs of a small record
MaxOut == 1        \* declared outputs of a small record
MaxEntries == 2    \* items of a mapping handed to relabel_variables

(***************************************************************************)
(* Characters and Python's str(), int(), string comparison.                *)
(***************************************************************************)
DigitChars == <<"0", "1", "2", "3", "4", "5", "6", "7", "8", "9">>

Digits == {DigitChars[i] : i \in 1..10}

Letters == {"a", "b", "c", "d", "e", "f", "g", "h", "i", "j", "k", "l", "m",
            "n", "o", "p", "q", "r", "s", "t", "u", "v", "w", "x", "y", "z",
            "A", "B", "C", "D", "E", "F", "G", "H", "I", "J", "K", "L", "M",
            "N", "O", "P", "Q", "R", "S", "T", "U", "V", "W", "X", "Y", "Z"}

\* the characters the regular expression class \w matches
WordChars == Letters \cup Digits \cup {"_"}

DigitVal(c) == CHOOSE d \in 0..9 : DigitChars[d + 1] = c

\* code point of a character of a symbol name ('0' is 48, 'p' is 112)
Ord(c) == IF c \in Digits THEN 48 + DigitVal(c) ELSE 112

RECURSIVE Str(_)
\* str(n) for n >= 0
Str(n) == IF n < 10 THEN <<DigitChars[n + 1]>>
          ELSE Str(n \div 10) \o <<DigitChars[(n % 10) + 1]>>

RECURSIVE ParseInt(_)
\* int(s) for a non-empty string of digits
ParseInt(s) == IF Len(s) = 1 THEN DigitVal(s[1])
              ELSE 10 * ParseInt(SubSeq(s, 1, Len(s) - 1)) + DigitVal(s[Len(s)])

\* f"p{n}"
Name(n) == <<"p">> \o Str(n)

\* int(x[1:])
SuffixInt(x) == ParseInt(Tail(x))

RECURSIVE StrLess(_, _)
\* a < b on Python strings
StrLess(a, b) ==
    IF a = <<>> THEN b # <<>>
    ELSE IF b = <<>> THEN FALSE
    ELSE IF Head(a) = Head(b) THEN StrLess(Tail(a), Tail(b))
    ELSE Ord(Head(a)) < Ord(Head(b))

RECURSIVE SortedLex(_)
\* sorted(S) for a set S of strings
SortedLex(S) ==
    IF S = {} THEN <<>>
    ELSE LET m == CHOOSE x \in S : \A y \in S : x = y \/ StrLess(x, y)
         IN <<m>> \o SortedLex(S \ {m})

RECURSIVE SortedNum(_)
\* sorted(S, key=lambda x: int(x[1:])) for a set S of names with distinct numbers
SortedNum(S) ==
    IF S = {} THEN <<>>
    ELSE LET m == CHOOSE x \in S : \A y \in S : SuffixInt(x) <= SuffixInt(y)
         IN <<m>> \o SortedNum(S \ {m})

Range(s) == {s[i] : i \in 1..Len(s)}

Max(S) == CHOOSE m \in S : \A x \in S : x <= m

\* needle in haystack, on strings
Contains(haystack, needle) ==
    \E i \in 1..(Len(haystack) - Len(needle) + 1) :
        SubSeq(haystack, i, i + Len(needle) - 1) = needle

(***************************************************************************)
(* Dicts.                                                                  *)
(***************************************************************************)
DictKeys(d) == {d[i][1] : i \in 1..Len(d)}

DictValues(d) == {d[i][2] : i \in 1..Len(d)}

\* d[k] for a key of d
DictGet(d, k) == d[CHOOSE i \in 1..Len(d) : d[i][1] = k][2]

\* d.get(k, k)
DictGetDefault(d, k) == IF k \in DictKeys(d) THEN DictGet(d, k) ELSE k

\* d[k] = v: a new key goes last, an old key keeps its place
DictSet(d, k, v) ==
    IF k \in DictKeys(d)
    THEN [i \in 1..Len(d) |-> IF d[i][1] = k THEN <<k, v>> ELSE d[i]]
    ELSE Append(d, <<k, v>>)

(***************************************************************************)
(* re.sub(r'\bOLD\b', new, s)                                              *)
(***************************************************************************)
IsWordAt(s, i) == i >= 1 /\ i <= Len(s) /\ s[i] \in WordChars

\* \b holds between s[i-1] and s[i]
Boundary(s, i) == IsWordAt(s, i - 1) # IsWordAt(s, i)

MatchAt(old, s, i) ==
    /\ i + Len(old) - 1 <= Len(s)
    /\ Boundary(s, i)
    /\ Boundary(s, i + Len(old))
    /\ SubSeq(s, i, i + Len(old) - 1) = old

RECURSIVE ReSubFrom(_, _, _, _)
ReSubFrom(old, new, s, i) ==
    IF i > Len(s) THEN <<>>
    ELSE IF MatchAt(old, s, i)
         THEN new \o ReSubFrom(old, new, s, i + Len(old))
         ELSE <<s[i]>> \o ReSubFrom(old, new, s, i + 1)

ReSub(old, new, s) == ReSubFrom(old, new, s, 1)

RECURSIVE ByLenFrom(_, _)
ByLenFrom(items, L) ==
    IF L = 0 THEN <<>>
    ELSE SelectSeq(items, LAMBDA e : Len(e[1]) = L) \o ByLenFrom(items, L - 1)

\* sorted(d.items(), key=lambda x: len(x[0]), reverse=True): the sort is stable
ByLenDesc(d) ==
    IF d = <<>> THEN <<>>
    ELSE ByLenFrom(d, Max({Len(d[i][1]) : i \in 1..Len(d)}))

RECURSIVE ApplyItems(_, _)
\* for old_var, new_var in items: formula = re.sub(...)
ApplyItems(items, formula) ==
    IF items = <<>> THEN formula
    ELSE ApplyItems(Tail(items), ReSub(items[1][1], items[1][2], formula))

\* the rewrite loop of merge_pairs: the input items, then the output items
RewriteFormula(formula, im, om) ==
    ApplyItems(ByLenDesc(om), ApplyItems(ByLenDesc(im), formula))

(***************************************************************************)
(* merge_pairs: the input mapping.                                         *)
(***************************************************************************)
\* "test_files"
TestFiles == <<"t", "e", "s", "t", "_", "f", "i", "l", "e", "s">>

\* the number of inputs that selects the position-wise branch
TestInputCount == 5

\* max(len(pair.inputs) for pair in pairs)
MaxInputsAll(ps) == Max({Len(ps[i].inputs) : i \in 1..Len(ps)})

is_max_inputs_test(ps, dir) ==
    /\ Contains(dir, TestFiles)
    /\ \E i \in 1..Len(ps) : Len(ps[i].inputs) = TestInputCount

RECURSIVE PositionPairs(_, _, _, _)
\* for pair in pairs[j:]: if i < len(pair.inputs): input_mapping[pair.inputs[i]] = new_var
\* (i counts from 1 here)
PositionPairs(ps, j, i, m) ==
    IF j > Len(ps) THEN m
    ELSE PositionPairs(ps, j + 1, i,
             IF i <= Len(ps[j].inputs) THEN DictSet(m, ps[j].inputs[i], Name(i))
             ELSE m)

RECURSIVE PositionMap(_, _, _, _)
\* for i in range(max_inputs): ... ; the i-th new name is p{i}
PositionMap(ps, i, max_inputs, m) ==
    IF i > max_inputs THEN m
    ELSE PositionMap(ps, i + 1, max_inputs, PositionPairs(ps, 1, i, m))

\* var_to_files[var]
var_to_files(ps, var) ==
    {ps[i].ltlf_path : i \in {j \in 1..Len(ps) : var \in Range(ps[j].inputs)}}

AllInputs(ps) == UNION {Range(ps[i].inputs) : i \in 1..Len(ps)}

has_conflicts(ps) == \E var \in AllInputs(ps) : Cardinality(var_to_files(ps, var)) > 1

RECURSIVE FillGroup(_, _, _, _)
\* for var in sorted(remaining_vars, ...): the group and its files grow
FillGroup(ps, cands, group, current_files) ==
    IF cands = <<>> THEN group
    ELSE IF var_to_files(ps, Head(cands)) \cap current_files = {}
         THEN FillGroup(ps, Tail(cands), group \cup {Head(cands)},
                        current_files \cup var_to_files(ps, Head(cands)))
         ELSE FillGroup(ps, Tail(cands), group, current_files)

RECURSIVE VarGroups(_, _, _, _)
\* while remaining_vars and len(var_groups) < max_inputs
VarGroups(ps, remaining_vars, var_groups, max_inputs) ==
    IF remaining_vars = {} \/ Len(var_groups) >= max_inputs THEN var_groups
    ELSE LET current_var == SortedNum(remaining_vars)[1]
             rest == remaining_vars \ {current_var}
             group == FillGroup(ps, SortedNum(rest), {current_var},
                                var_to_files(ps, current_var))
         IN VarGroups(ps, remaining_vars \ group, Append(var_groups, group), max_inputs)

RECURSIVE GroupItems(_, _)
\* for var in group: input_mapping[var] = new_var.  Python iterates the set in
\* an unspecified order; every item of a group has the same image, so the
\* order within a group changes no rewrite, and the numeric order stands for it.
GroupItems(vs, new_var) ==
    IF vs = <<>> THEN <<>>
    ELSE <<<<Head(vs), new_var>>>> \o GroupItems(Tail(vs), new_var)

RECURSIVE GroupMap(_, _)
\* for group in var_groups: the k-th group is named p{k}
GroupMap(var_groups, k) ==
    IF k > Len(var_groups) THEN <<>>
    ELSE GroupItems(SortedNum(var_groups[k]), Name(k)) \o GroupMap(var_groups, k + 1)

RECURSIVE PadInputs(_, _, _)
\* while len(used_inputs) < max_inputs: used_inputs.add(f"p{current_var_idx}")
PadInputs(used, idx, max_inputs) ==
    IF Cardinality(used) >= max_inputs THEN used
    ELSE PadInputs(used \cup {Name(idx)}, idx + 1, max_inputs)

\* lines 223-231: the position-wise branch
PositionInputs(ps, max_inputs) ==
    [err |-> "none",
     input_mapping |-> PositionMap(ps, 1, max_inputs, <<>>),
     used_inputs |-> {Name(i) : i \in 1..max_inputs}]

\* lines 252-257: for var in all_vars[:max_inputs], var keeps its name
PreserveInputs(kept) ==
    [err |-> "none",
     input_mapping |-> [i \in 1..Len(kept) |-> <<kept[i], kept[i]>>],
     used_inputs |-> Range(kept)]

\* lines 280-292: one new name for each group, then the padding
GroupInputs(var_groups, max_inputs) ==
    [err |-> "none",
     input_mapping |-> GroupMap(var_groups, 1),
     used_inputs |-> PadInputs({Name(k) : k \in 1..Len(var_groups)},
                               Len(var_groups) + 1, max_inputs)]

\* lines 246-292
ReuseInputs(ps, max_inputs, all_vars) ==
    IF ~has_conflicts(ps)
    THEN PreserveInputs(SubSeq(all_vars, 1, IF max_inputs < Len(all_vars)
                                            THEN max_inputs ELSE Len(all_vars)))
    ELSE GroupInputs(VarGroups(ps, Range(all_vars), <<>>, max_inputs), max_inputs)

\* lines 212-292: [err, input_mapping, used_inputs]; pairs[1] of line 237 does
\* not exist in a list of one pair
InputPhase(ps, dir) ==
    IF is_max_inputs_test(ps, dir) THEN PositionInputs(ps, MaxInputsAll(ps))
    ELSE IF Len(ps) < 2
    THEN [err |-> "IndexError", input_mapping |-> <<>>, used_inputs |-> {}]
    ELSE ReuseInputs(ps, Max({Len(ps[1].inputs), Len(ps[2].inputs)}),
                     SortedNum(AllInputs(ps)))

(***************************************************************************)
(* merge_pairs: the output mapping, the formula and the merged pair.       *)
(***************************************************************************)
AllOutputs(ps) == UNION {Range(ps[i].outputs) : i \in 1..Len(ps)}

RECURSIVE SkipUsed(_, _)
\* while f"p{current_var_idx}" in used_inputs: current_var_idx += 1
SkipUsed(idx, used) == IF Name(idx) \in used THEN SkipUsed(idx + 1, used) ELSE idx

RECURSIVE MapOutputs_NoAdvance(_, _, _, _)
\* current_var_idx is not advanced after a name is given out
MapOutputs_NoAdvance(vs, idx, m, used) ==
    IF vs = <<>> THEN m
    ELSE LET k == SkipUsed(idx, used)
         IN MapOutputs_NoAdvance(Tail(vs), k, Append(m, <<Head(vs), Name(k)>>), used)

RECURSIVE MapOutputs(_, _, _, _)
\* for var in sorted(set(all_outputs)): ...
MapOutputs(vs, idx, m, used) ==
    IF vs = <<>> THEN m
    ELSE LET k == SkipUsed(idx, used)
         IN MapOutputs(Tail(vs), k + 1, Append(m, <<Head(vs), Name(k)>>), used)

\* the names of used_inputs are not skipped
OutputMapping_NoSkip(ps, used) == MapOutputs(SortedLex(AllOutputs(ps)), 1, <<>>, {})

OutputMapping(ps, used) == MapOutputs(SortedLex(AllOutputs(ps)), 1, <<>>, used)

\* the first constituent is left unclosed
Bracket_Unclosed(i, merged_formula, formula) ==
    IF i = 1 THEN <<"(">> \o formula
    ELSE <<"(">> \o merged_formula \o <<")", " ", "&", "&", " ", "(">>
         \o formula \o <<")">>

\* the bracketing of loop iteration i (the first is 1)
Bracket(i, merged_formula, formula) ==
    IF i = 1 THEN <<"(">> \o formula \o <<")">>
    ELSE <<"(">> \o merged_formula \o <<")", " ", "&", "&", " ", "(">>
         \o formula \o <<")">>

RECURSIVE MergedFormula(_, _, _)
MergedFormula(fs, i, merged_formula) ==
    IF i > Len(fs) THEN merged_formula
    ELSE MergedFormula(fs, i + 1, Bracket(i, merged_formula, fs[i]))

NoResult == [status |-> "none", formula |-> <<>>, inputs |-> <<>>, outputs |-> <<>>]

NoFiles == [ltlf |-> <<>>, part_inputs |-> <<>>, part_outputs |-> <<>>]

\* what merge_pairs leaves when it raises the exception err
Raised(err) ==
    [input_mapping |-> <<>>, output_mapping |-> <<>>, used_inputs |-> {},
     formulas |-> <<>>, files |-> NoFiles,
     result |-> [status |-> err, formula |-> <<>>, inputs |-> <<>>, outputs |-> <<>>]]

\* if not pairs: return "", [], []
EmptyMerge ==
    [input_mapping |-> <<>>, output_mapping |-> <<>>, used_inputs |-> {},
     formulas |-> <<>>, files |-> NoFiles,
     result |-> [status |-> "ok", formula |-> <<>>, inputs |-> <<>>, outputs |-> <<>>]]

\* lines 326-337: the merged pair is written and returned
MergedPair(ip, om, fs, merged_formula, merged_inputs, merged_outputs) ==
    [input_mapping |-> ip.input_mapping, output_mapping |-> om,
     used_inputs |-> ip.used_inputs, formulas |-> fs,
     files |-> [ltlf |-> merged_formula,
                part_inputs |-> SortedLex(Range(merged_inputs)),
                part_outputs |-> SortedLex(Range(merged_outputs))],
     result |-> [status |-> "ok", formula |-> merged_formula,
                 inputs |-> merged_inputs, outputs |-> merged_outputs]]

\* lines 320-334: the bracketing, and the sorted lists of the merged pair
RewriteLoop(ip, om, fs) ==
    MergedPair(ip, om, fs, MergedFormula(fs, 1, <<>>), SortedLex(ip.used_inputs),
               SortedLex(DictValues(om)))

\* lines 310-318: the local `formula` of every iteration
RewriteAll(ps, ip, om) ==
    RewriteLoop(ip, om, [i \in 1..Len(ps) |->
                   RewriteFormula(ps[i].ltlf_formula, ip.input_mapping, om)])

\* lines 293-337
OutputPhase(ps, ip) ==
    IF ip.err # "none" THEN Raised(ip.err)
    ELSE RewriteAll(ps, ip, OutputMapping(ps, ip.used_inputs))

\* lines 202-337, for a non-empty list ps
MergeNonEmpty(ps, dir) == OutputPhase(ps, InputPhase(ps, dir))

\* without the test of line 199, max() of line 213 raises on the empty list
merge_pairs_NoEmptyTest(ps, dir) ==
    IF ps = <<>> THEN Raised("ValueError") ELSE MergeNonEmpty(ps, dir)

\* everything merge_pairs computes for the list ps and the directory dir
merge_pairs(ps, dir) ==
    IF ps = <<>> THEN EmptyMerge ELSE MergeNonEmpty(ps, dir)

(***************************************************************************)
(* relabel_variables                                                       *)
(***************************************************************************)
\* the pair after pair.relabel_variables(im, om)
relabel_variables(pair, im, om) ==
    [pair EXCEPT
       !.ltlf_formula = ApplyItems(ByLenDesc(im) \o ByLenDesc(om), @),
       !.inputs = [i \in 1..Len(@) |-> DictGetDefault(im, @[i])],
       !.outputs = [i \in 1..Len(@) |-> DictGetDefault(om, @[i])]]

(***************************************************************************)
(* The records the model loads.                                            *)
(***************************************************************************)
\* the symbol names of the small records: p1, p2 and p10
Syms == {Name(1), Name(2), Name(10)}

RECURSIVE JoinAnd(_)
\* "&".join(names)
JoinAnd(names) ==
    IF Len(names) = 1 THEN names[1]
    ELSE names[1] \o <<"&">> \o JoinAnd(Tail(names))

\* a formula over exactly the declared symbols: G(p1&p2&p10), or G(true)
DeclaredFormula(ins, outs) ==
    IF ins \o outs = <<>> THEN <<"G", "(", "t", "r", "u", "e", ")">>
    ELSE <<"G", "(">> \o JoinAnd(ins \o outs) \o <<")">>

\* a formula over p1 and p10, declared or not: p1 | p10
FixedFormula == Name(1) \o <<" ", "|", " ">> \o Name(10)

RecordOf(ins, outs, f) == [inputs |-> ins, outputs |-> outs, ltlf_formula |-> f]

SmallRecords ==
    UNION {{RecordOf(SortedNum(I), SortedNum(O),
                     DeclaredFormula(SortedNum(I), SortedNum(O))) :
               O \in {X \in SUBSET (Syms \ I) : Cardinality(X) <= MaxOut}} :
           I \in {X \in SUBSET Syms : Cardinality(X) <= MaxIn}}

\* records with TestInputCount inputs, in two orders
FiveRecords ==
    {RecordOf(ins, <<Name(10)>>, DeclaredFormula(ins, <<Name(10)>>)) :
        ins \in {[i \in 1..TestInputCount |-> Name(i)],
                 [i \in 1..TestInputCount |->
                     IF i = 1 THEN Name(2) ELSE IF i = 2 THEN Name(1) ELSE Name(i)]}}

Records == SmallRecords \cup FiveRecords

\* the i-th loaded pair comes from the file f<i>.ltlf
Loaded(rs) ==
    [i \in 1..Len(rs) |->
        [ltlf_path |-> <<"f">> \o Str(i), ltlf_formula |-> rs[i].ltlf_formula,
         inputs |-> rs[i].inputs, outputs |-> rs[i].outputs]]

PairLists == {Loaded(rs) : rs \in UNION {[1..n -> Records] : n \in 0..MaxPairs}}

OutputDirs == {<<"o", "u", "t">>, TestFiles}

\* the dicts of at most MaxEntries items over Syms (keys distinct)
Dicts ==
    {d \in UNION {[1..n -> Syms \X Syms] : n \in 0..MaxEntries} :
        \A i, j \in 1..Len(d) : i # j => d[i][1] # d[j][1]}

RelabelRecords ==
    {RecordOf(<<Name(1), Name(2)>>, <<Name(10)>>, f) :
        f \in {DeclaredFormula(<<Name(1), Name(2)>>, <<Name(10)>>), FixedFormula}}

(***************************************************************************)
(* The state machine.                                                      *)
(***************************************************************************)
Init ==
    /\ pairs \in PairLists
    /\ output_dir \in OutputDirs
    /\ input_mapping = <<>>
    /\ output_mapping = <<>>
    /\ used_inputs = {}
    /\ formulas = <<>>
    /\ result = NoResult
    /\ files = NoFiles
    /\ pc = "loaded"

\* merger.merge_pairs(pairs, output_dir)
MergePairs ==
    /\ pc = "loaded"
    /\ \E r \in {merge_pairs(pairs, output_dir)} :
          /\ input_mapping' = r.input_mapping
          /\ output_mapping' = r.output_mapping
          /\ used_inputs' = r.used_inputs
          /\ formulas' = r.formulas
          /\ result' = r.result
          /\ files' = r.files
    /\ pc' = "merged"
    /\ UNCHANGED <<pairs, output_dir>>

Next == MergePairs

Spec == Init /\ [][Next]_vars

\* a pair and the two dicts a caller hands to relabel_variables
InitRelabel ==
    /\ pairs \in {Loaded(<<r>>) : r \in RelabelRecords}
    /\ output_dir = <<"o", "u", "t">>
    /\ input_mapping \in Dicts
    /\ output_mapping \in Dicts
    /\ used_inputs = {}
    /\ formulas = <<>>
    /\ result = NoResult
    /\ files = NoFiles
    /\ pc = "loaded"

\* pairs[0].relabel_variables(input_mapping, output_mapping)
RelabelVariables ==
    /\ pc = "loaded"
    /\ pairs' = [pairs EXCEPT ![1] = relabel_variables(@, input_mapping, output_mapping)]
    /\ pc' = "relabelled"
    /\ UNCHANGED <<output_dir, input_mapping, output_mapping, used_inputs,
                   formulas, result, files>>

NextRelabel == RelabelVariables

SpecRelabel == InitRelabel /\ [][NextRelabel]_vars

(***************************************************************************)
(* Properties of merge_pairs.                                              *)
(***************************************************************************)
Merged == pc = "merged" /\ result.status = "ok"

MergedInputs == Range(result.inputs)

MergedOutputs == Range(result.outputs)

Count(c, s) == Cardinality({i \in 1..Len(s) : s[i] = c})

\* no prefix of s closes more parentheses than it opens, and all are closed
Balanced(s) ==
    /\ Count("(", s) = Count(")", s)
    /\ \A n \in 1..Len(s) : Count(")", SubSeq(s, 1, n)) <= Count("(", SubSeq(s, 1, n))

\* C1: whenever merge_pairs returns for a non-empty list of records, no symbol
\* is both a merged input and a merged output.
C1_Disjointness ==
    (Merged /\ pairs # <<>>) => MergedInputs \cap MergedOutputs = {}

\* a merge has returned inputs and outputs for records that share a symbol
\* across the two roles
C1_Witness ==
    /\ Merged
    /\ MergedInputs # {} /\ MergedOutputs # {}
    /\ AllInputs(pairs) \cap AllOutputs(pairs) # {}

\* C5: merge_pairs of the empty list returns the empty formula, no inputs and
\* no outputs, and raises nothing.
C5_EmptyMerge ==
    (pc = "merged" /\ pairs = <<>>) =>
        result = [status |-> "ok", formula |-> <<>>, inputs |-> <<>>, outputs |-> <<>>]

\* merge_pairs has been called with the empty list
C5_Witness == pc = "merged" /\ pairs = <<>>

\* C6: for a non-empty list of records with balanced formulas, the merged
\* formula has as many '(' as ')', starts with '(' and ends with ')'.
C6_BalancedParentheses ==
    (Merged /\ pairs # <<>> /\ \A i \in 1..Len(pairs) : Balanced(pairs[i].ltlf_formula)) =>
        /\ Count("(", result.formula) = Count(")", result.formula)
        /\ Head(result.formula) = "("
        /\ result.formula[Len(result.formula)] = ")"

\* two records with parenthesized formulas have been merged
C6_Witness ==
    /\ Merged
    /\ Len(pairs) >= 2
    /\ \A i \in 1..Len(pairs) :
          Balanced(pairs[i].ltlf_formula) /\ Count("(", pairs[i].ltlf_formula) > 0

\* the last character of the maximal run of word characters that starts at s[i]
RunEnd(s, i) ==
    CHOOSE e \in i..Len(s) :
        /\ \A k \in i..e : s[k] \in WordChars
        /\ e = Len(s) \/ s[e + 1] \notin WordChars

RECURSIVE WordsFrom(_, _)
WordsFrom(s, i) ==
    IF i > Len(s) THEN <<>>
    ELSE IF s[i] \notin WordChars THEN WordsFrom(s, i + 1)
    ELSE <<SubSeq(s, i, RunEnd(s, i))>> \o WordsFrom(s, RunEnd(s, i) + 1)

\* the tokens of a formula: its maximal runs of word characters, in order
Words(s) == WordsFrom(s, 1)

RECURSIVE TotalLen(_, _)
\* the sum of the lengths of the lists ls[i..]
TotalLen(ls, i) == IF i > Len(ls) THEN 0 ELSE Len(ls[i]) + TotalLen(ls, i + 1)

InputLists == [i \in 1..Len(pairs) |-> pairs[i].inputs]

OutputLists == [i \in 1..Len(pairs) |-> pairs[i].outputs]

\* every two distinct symbols of S are declared together in one of the lists
PairwiseConflict(S, ls) ==
    \A x, y \in S : x # y => \E i \in 1..Len(ls) : {x, y} \subseteq Range(ls[i])

\* C2: after a merge of a non-empty list, every declared input has exactly one
\* image under the input mapping and that image is a merged input; every
\* declared output has exactly one image under the output mapping and that
\* image is a merged output.
C2_Completeness ==
    (Merged /\ pairs # <<>>) =>
        /\ \A s \in AllInputs(pairs) :
              /\ Cardinality({i \in 1..Len(input_mapping) : input_mapping[i][1] = s}) = 1
              /\ DictGet(input_mapping, s) \in MergedInputs
        /\ \A s \in AllOutputs(pairs) :
              /\ Cardinality({i \in 1..Len(output_mapping) : output_mapping[i][1] = s}) = 1
              /\ DictGet(output_mapping, s) \in MergedOutputs

\* C3: when s is an input of record a and an output of record b, the tokens s
\* of a's formula end as the input image of s, a merged input, the tokens s of
\* b's formula end as the output image of s, a merged output, and the two
\* images differ.
C3_RoleQualifiedRewriting ==
    Merged =>
        \A a, b \in 1..Len(pairs) :
            \A s \in Range(pairs[a].inputs) \cap Range(pairs[b].outputs) :
                /\ s \in DictKeys(input_mapping)
                /\ s \in DictKeys(output_mapping)
                /\ DictGet(input_mapping, s) \in MergedInputs
                /\ DictGet(output_mapping, s) \in MergedOutputs
                /\ DictGet(input_mapping, s) # DictGet(output_mapping, s)
                /\ \A j \in 1..Len(Words(pairs[a].ltlf_formula)) :
                      Words(pairs[a].ltlf_formula)[j] = s =>
                          Words(formulas[a])[j] = DictGet(input_mapping, s)
                /\ \A j \in 1..Len(Words(pairs[b].ltlf_formula)) :
                      Words(pairs[b].ltlf_formula)[j] = s =>
                          Words(formulas[b])[j] = DictGet(output_mapping, s)

\* C4: a merge of exactly one record returns normally, with the record's
\* rewritten formula in one parenthesis pair and with as many merged inputs
\* (outputs) as the record has inputs (outputs).
C4_SingleRecord ==
    (pc = "merged" /\ Len(pairs) = 1) =>
        /\ result.status = "ok"
        /\ result.formula = <<"(">> \o formulas[1] \o <<")">>
        /\ Len(result.inputs) = Len(pairs[1].inputs)
        /\ Len(result.outputs) = Len(pairs[1].outputs)

\* C7: after a merge of a non-empty list, the numbers of the merged symbols
\* are exactly 1..k, k the number of merged symbols.
C7_ContiguousNumbering ==
    (Merged /\ pairs # <<>>) =>
        {SuffixInt(x) : x \in MergedInputs \cup MergedOutputs}
            = 1..Cardinality(MergedInputs \cup MergedOutputs)

Declared(i) == Range(pairs[i].inputs) \cup Range(pairs[i].outputs)

\* C11: in the mapping merge_pairs computes, two distinct symbols that one
\* record declares together as inputs have two different new names.
C11_ProperColouring ==
    Merged =>
        \A i \in 1..Len(pairs) :
            \A x, y \in Range(pairs[i].inputs) \cap DictKeys(input_mapping) :
                x # y => DictGet(input_mapping, x) # DictGet(input_mapping, y)

\* the nesting depth after the first n characters of s
Depth(s, n) == Count("(", SubSeq(s, 1, n)) - Count(")", SubSeq(s, 1, n))

RECURSIVE Flatten(_, _)
\* the tokens of the formulas fs[i..], one formula after the other
Flatten(fs, i) == IF i > Len(fs) THEN <<>> ELSE Words(fs[i]) \o Flatten(fs, i + 1)

\* C12: for two or more records with balanced formulas, the first '(' of the
\* merged formula is closed by its last ')' (the depth is not zero before the
\* last character), and the constituents stand in it in the record order.
C12_EnclosingPair ==
    (Merged /\ Len(pairs) >= 2 /\ \A i \in 1..Len(pairs) : Balanced(pairs[i].ltlf_formula)) =>
        /\ \A n \in 1..(Len(result.formula) - 1) : Depth(result.formula, n) > 0
        /\ Words(result.formula) = Flatten(formulas, 1)

\* C13: what merge_pairs returns for a list of records is what it returns for
\* the same list with any other output_dir.
C13_NoPathSpecialCasing ==
    pc = "merged" => \A dir \in OutputDirs : merge_pairs(pairs, dir).result = result

\* the numbers of the names of the list ns increase
NumericallySorted(ns) ==
    \A i, j \in 1..Len(ns) : i < j => SuffixInt(ns[i]) < SuffixInt(ns[j])

\* C14: after a merge of a non-empty list the merged inputs and the merged
\* outputs are in the order of their numbers, and the old output symbols got
\* their new names in the order of their numbers.
C14_NumericOrdering ==
    (Merged /\ pairs # <<>>) =>
        /\ NumericallySorted(result.inputs)
        /\ NumericallySorted(result.outputs)
        /\ NumericallySorted([i \in 1..Len(output_mapping) |-> output_mapping[i][1]])

\* C15: in the rewritten formula of every record, two distinct declared
\* symbols do not end as the same token, every token of a declared input ends
\* as a merged input and every token of a declared output as a merged output.
C15_PerRecordInjectivity ==
    (Merged /\ pairs # <<>>) =>
        \A i \in 1..Len(pairs) :
            \A j, k \in 1..Len(Words(pairs[i].ltlf_formula)) :
                /\ (/\ Words(pairs[i].ltlf_formula)[j] \in Declared(i)
                    /\ Words(pairs[i].ltlf_formula)[k] \in Declared(i)
                    /\ Words(pairs[i].ltlf_formula)[j] # Words(pairs[i].ltlf_formula)[k]) =>
                       Words(formulas[i])[j] # Words(formulas[i])[k]
                /\ Words(pairs[i].ltlf_formula)[j] \in Range(pairs[i].inputs) =>
                       Words(formulas[i])[j] \in MergedInputs
                /\ Words(pairs[i].ltlf_formula)[j] \in Range(pairs[i].outputs) =>
                       Words(formulas[i])[j] \in MergedOutputs

(***************************************************************************)
(* Properties of relabel_variables.                                        *)
(***************************************************************************)
RelabelStep == pc = "loaded" /\ pc' = "relabelled"

\* no symbol is a key of both dicts, as in a record inputs and outputs are disjoint
KeysDisjoint == DictKeys(input_mapping) \cap DictKeys(output_mapping) = {}

\* the image of a token under the two dicts
Image(tok) ==
    IF tok \in DictKeys(input_mapping) THEN DictGet(input_mapping, tok)
    ELSE DictGetDefault(output_mapping, tok)

RECURSIVE SimultaneousFrom(_, _)
SimultaneousFrom(s, i) ==
    IF i > Len(s) THEN <<>>
    ELSE IF s[i] \notin WordChars THEN <<s[i]>> \o SimultaneousFrom(s, i + 1)
    ELSE Image(SubSeq(s, i, RunEnd(s, i))) \o SimultaneousFrom(s, RunEnd(s, i) + 1)

\* one pass over s: every token that is a key becomes its image
Simultaneous(s) == SimultaneousFrom(s, 1)

\* C8: when the formula has the tokens p1 and p10 and a dict renames p1,
\* relabel_variables leaves every token p10 as the image of p10 (p10 itself
\* when it is not a key).
C8_TokenIntegrity ==
    [][(/\ RelabelStep
        /\ KeysDisjoint
        /\ {Name(1), Name(10)} \subseteq Range(Words(pairs[1].ltlf_formula))
        /\ Image(Name(1)) # Name(1)) =>
           \A j \in 1..Len(Words(pairs[1].ltlf_formula)) :
               Words(pairs[1].ltlf_formula)[j] = Name(10) =>
                   Words(pairs'[1].ltlf_formula)[j] = Image(Name(10))]_vars

\* C10: relabel_variables yields the one-pass substitution of the original
\* formula.
C10_SimultaneousSubstitution ==
    [][(RelabelStep /\ KeysDisjoint) =>
           pairs'[1].ltlf_formula = Simultaneous(pairs[1].ltlf_formula)]_vars

====
